---- MODULE Spec2Model ----
(***************************************************************************)
(* Model of lib/command.go: the argument rewriting and channel protocol of *)
(* command, the dispatch decision of makeExecutor and the registry lookup  *)
(* of commandDetails.                                                      *)
(***************************************************************************)
EXTENDS Integers, Sequences, FiniteSets, TLC

VARIABLES
    \* commandDetails
    cmdDetailsMap,  \* the static registry: joined path -> cmdDetails
    lookupPath,     \* the |path| argument of commandDetails
    lookupOut,      \* what commandDetails returned (None before the call)
    \* makeExecutor
    req,            \* the parsed request
    world,          \* what the collaborators answer during this dispatch
    exeOut,         \* what makeExecutor returned (None before the call)
    \* command
    argsIn,         \* the argument list command was called with
    args,           \* command's local args
    pc,             \* command's position
    chanCap,        \* capacity of envCh and errCh (0: unbuffered)
    envCh, errCh,   \* values buffered in the channels
    envSent, errSent, \* every value whose send has completed, in order
    runErr,         \* the error cli.Run (or profileIfEnabled) returned
    kpc,            \* the consumer's position
    kGot            \* what the consumer received, in order

detailsVars == <<lookupPath, lookupOut>>
execVars == <<req, world, exeOut>>
cmdVars == <<argsIn, args, pc, chanCap, envCh, errCh, envSent, errSent, runErr, kpc, kGot>>
vars == <<cmdDetailsMap, detailsVars, execVars, cmdVars>>

----------------------------------------------------------------------------
(* Bounds *)

MaxPathLen == 3
MaxArgs == 4
MaxCandidates == 2

----------------------------------------------------------------------------
(* Strings are sequences of characters; a path segment is a command name. *)

SegA == <<"a">>
SegB == <<"b">>
Segments == {SegA, SegB}

SeqsUpTo(S, n) == UNION {[1..k -> S] : k \in 0..n}

\* strings.Join(elems, sep)
RECURSIVE Join(_, _)
Join(elems, sep) ==
    IF Len(elems) = 0 THEN <<>>
    ELSE IF Len(elems) = 1 THEN elems[1]
    ELSE elems[1] \o sep \o Join(Tail(elems), sep)

\* the cmdDetails struct (the fields this file reads)
ZeroDetails ==
    [cannotRunOnClient |-> FALSE, cannotRunOnDaemon |-> FALSE, doesNotUseRepo |-> FALSE]

AllDetails ==
    [cannotRunOnClient : BOOLEAN, cannotRunOnDaemon : BOOLEAN, doesNotUseRepo : BOOLEAN]

\* the loop of commandDetails stopped at the first registered prefix
RECURSIVE DetailsLoopFirstMatch(_, _, _, _)
DetailsLoopFirstMatch(map, path, i, details) ==
    IF i > Len(path) THEN details
    ELSE LET key == Join(SubSeq(path, 1, i), <<"/">>)
         IN  IF key \in DOMAIN map THEN map[key]
             ELSE DetailsLoopFirstMatch(map, path, i + 1, details)

\* for i := range path { if found { details = cmdDetails } }
RECURSIVE DetailsLoop(_, _, _, _)
DetailsLoop(map, path, i, details) ==
    IF i > Len(path) THEN details
    ELSE LET key == Join(SubSeq(path, 1, i), <<"/">>)
         IN  DetailsLoop(map, path, i + 1,
                         IF key \in DOMAIN map THEN map[key] ELSE details)

commandDetails(map, path) ==
    IF Len(path) = 0
    THEN [ZeroDetails EXCEPT !.doesNotUseRepo = TRUE]
    ELSE DetailsLoop(map, path, 1, ZeroDetails)

----------------------------------------------------------------------------
(* Idle values of the parts a specification does not exercise *)

\* the value of a result variable before the call returns
None == [none |-> TRUE]

IdleDetails == lookupPath = <<>> /\ lookupOut = None
IdleExec == req = None /\ world = None /\ exeOut = None
IdleCmd ==
    /\ argsIn = <<>> /\ args = <<>> /\ pc = "idle" /\ chanCap = 0
    /\ envCh = <<>> /\ errCh = <<>> /\ envSent = <<>> /\ errSent = <<>>
    /\ runErr = "none" /\ kpc = "idle" /\ kGot = <<>>

----------------------------------------------------------------------------
(* SpecDetails: commandDetails applied to every path and registry content *)

RegistryKeyPaths ==
    {<<SegA>>, <<SegB>>, <<SegA, SegA>>, <<SegA, SegB>>, <<SegA, SegB, SegA>>}

RegistryKeys == {Join(p, <<"/">>) : p \in RegistryKeyPaths}

RegistryDetails ==
    { [ZeroDetails EXCEPT !.cannotRunOnClient = TRUE],
      [ZeroDetails EXCEPT !.cannotRunOnDaemon = TRUE],
      [ZeroDetails EXCEPT !.doesNotUseRepo = TRUE] }

Registries == UNION {[K -> RegistryDetails] : K \in SUBSET RegistryKeys}

DetailsInit ==
    /\ cmdDetailsMap \in Registries
    /\ lookupPath \in SeqsUpTo(Segments, MaxPathLen)
    /\ lookupOut = None
    /\ IdleExec /\ IdleCmd

CallCommandDetails ==
    /\ lookupOut = None
    /\ lookupOut' = commandDetails(cmdDetailsMap, lookupPath)
    /\ UNCHANGED <<cmdDetailsMap, lookupPath, execVars, cmdVars>>

DetailsNext == CallCommandDetails

SpecDetails == DetailsInit /\ [][DetailsNext]_vars

\* the path prefixes that have a registry entry, by length
RegisteredPrefixes(map, path) ==
    {i \in 1..Len(path) : Join(SubSeq(path, 1, i), <<"/">>) \in DOMAIN map}

Longest(S) == CHOOSE i \in S : \A j \in S : j <= i

\* C9: commandDetails returns the flags of the longest registered prefix of
\* the path, all-false flags when the path is non-empty and no prefix is
\* registered, and exactly {doesNotUseRepo: true} for the empty path.
C9_DeepestPrefixWins ==
    lookupOut # None =>
        LET R == RegisteredPrefixes(cmdDetailsMap, lookupPath)
        IN  /\ Len(lookupPath) = 0 =>
                lookupOut = [cannotRunOnClient |-> FALSE, cannotRunOnDaemon |-> FALSE,
                             doesNotUseRepo |-> TRUE]
            /\ (Len(lookupPath) > 0 /\ R = {}) =>
                lookupOut = [cannotRunOnClient |-> FALSE, cannotRunOnDaemon |-> FALSE,
                             doesNotUseRepo |-> FALSE]
            /\ R # {} =>
                lookupOut = cmdDetailsMap[Join(SubSeq(lookupPath, 1, Longest(R)), <<"/">>)]

\* a lookup whose path has two registered prefixes with different flags
C9_Witness ==
    /\ lookupOut # None
    /\ \E i, j \in RegisteredPrefixes(cmdDetailsMap, lookupPath) :
          /\ i < j
          /\ cmdDetailsMap[Join(SubSeq(lookupPath, 1, i), <<"/">>)]
                # cmdDetailsMap[Join(SubSeq(lookupPath, 1, j), <<"/">>)]
          /\ lookupOut = cmdDetailsMap[Join(SubSeq(lookupPath, 1, j), <<"/">>)]

----------------------------------------------------------------------------
(* makeExecutor *)

\* values of the --api option; NoOption: the option is not set
NoOption == "<unset>"
WellFormedApi == {"/dns4/node1/tcp/5001", "/dns4/node2/tcp/5001"}
MalformedApi == {"not-a-multiaddr"}
ApiOptionValues == {NoOption} \cup WellFormedApi \cup MalformedApi

\* ma.NewMultiaddr(s)
NewMultiaddr(s) ==
    IF s \in WellFormedApi THEN [addr |-> s, err |-> "nil"]
    ELSE [addr |-> "nil", err |-> "invalid multiaddr"]

apiAddrOption(r) ==
    IF r.api = NoOption THEN [addr |-> "nil", err |-> "nil"]
    ELSE NewMultiaddr(r.api)

\* the addresses a resolution can yield, and manet.DialArgs of each
ResolvedAddrs ==
    {"/ip4/127.0.0.1/tcp/5001", "/unix/tmp/api.sock", "/ip4/127.0.0.1/udp/5001",
     "/dns4/node3/tcp/5001"}

DialArgs(a) ==
    CASE a = "/ip4/127.0.0.1/tcp/5001" ->
            [network |-> "tcp4", host |-> "127.0.0.1:5001", err |-> "nil"]
      [] a = "/unix/tmp/api.sock" ->
            [network |-> "unix", host |-> "/tmp/api.sock", err |-> "nil"]
      [] a = "/ip4/127.0.0.1/udp/5001" ->
            [network |-> "udp4", host |-> "127.0.0.1:5001", err |-> "nil"]
      [] OTHER ->
            [network |-> "", host |-> "", err |-> "not a thin waist address"]

\* what fsrepo.APIAddr(cctx.ConfigRoot) can return
DiscoveryResults ==
    {[addr |-> "nil", err |-> "ErrApiNotRunning"],
     [addr |-> "nil", err |-> "read api file: permission denied"]}
    \cup {[addr |-> a, err |-> "nil"] : a \in WellFormedApi}

\* what dnsResolver.Resolve(ctx, addr) can return within the 10 s deadline,
\* or fail with
ResolveResults ==
    {[addrs |-> <<>>, err |-> "resolver failure"],
     [addrs |-> <<>>, err |-> "context deadline exceeded"]}
    \cup {[addrs |-> s, err |-> "nil"] : s \in SeqsUpTo(ResolvedAddrs, MaxCandidates)}

resolveAddr(w, addr) ==
    IF w.resolve.err # "nil" THEN [addr |-> "nil", err |-> w.resolve.err]
    ELSE IF Len(w.resolve.addrs) = 0
         THEN [addr |-> "nil", err |-> "non-resolvable API endpoint"]
         ELSE [addr |-> w.resolve.addrs[1], err |-> "nil"]

\* the results of makeExecutor; calls lists the collaborators invoked, in order
ExeError(msg, calls) ==
    [kind |-> "error", err |-> msg, apiAddr |-> "nil", network |-> "", host |-> "",
     sock |-> "", calls |-> calls]

ExeLocal(calls) ==
    [kind |-> "LocalExecutor", err |-> "nil", apiAddr |-> "nil", network |-> "",
     host |-> "", sock |-> "", calls |-> calls]

\* cmdhttp.NewClient(host, opts...)
ExeClient(fallback, apiAddr, network, host, sock, calls) ==
    [kind |-> IF fallback THEN "RemoteExecutorWithLocalFallback" ELSE "RemoteExecutor",
     err |-> "nil", apiAddr |-> apiAddr, network |-> network, host |-> host,
     sock |-> sock, calls |-> calls]

isDisabledIgnoringRepoless(details) ==
    details.cannotRunOnClient /\ details.cannotRunOnDaemon /\ ~details.doesNotUseRepo

\* details.cannotRunOnClient && details.cannotRunOnDaemon
isDisabled(details) ==
    details.cannotRunOnClient /\ details.cannotRunOnDaemon

canRunLocallyUnlessClientOnly(details) ==
    ~details.cannotRunOnClient /\ details.doesNotUseRepo /\ ~details.cannotRunOnDaemon

\* !details.cannotRunOnClient && details.doesNotUseRepo
canRunLocally(details) ==
    ~details.cannotRunOnClient /\ details.doesNotUseRepo

daemonRequestedEvenForDaemonCmd(apiAddr, r) ==
    apiAddr # "nil"

\* daemonRequested := apiAddr != nil && req.Command != daemonCmd
daemonRequested(apiAddr, r) ==
    apiAddr # "nil" /\ ~r.isDaemonCmd

mustRunOnClientIgnoringExternal(details, r) ==
    details.cannotRunOnDaemon

\* details.cannotRunOnDaemon || req.Command.External
mustRunOnClient(details, r) ==
    details.cannotRunOnDaemon \/ r.External

discoveryAbortsOnAnyError(err) ==
    err # "nil"

\* switch err { case nil, repo.ErrApiNotRunning: default: return nil, err }
discoveryAborts(err) ==
    err \notin {"nil", "ErrApiNotRunning"}

\* the fallback test without the repository check; calls as in useFallback
useFallbackWithoutRepo(requested, w) ==
    [yes |-> ~requested,
     calls |-> IF requested THEN <<>> ELSE << <<"IsInitialized">> >>]

\* !daemonRequested && fsrepo.IsInitialized(cctx.ConfigRoot)
useFallback(requested, w) ==
    [yes |-> ~requested /\ w.initialized,
     calls |-> IF requested THEN <<>> ELSE << <<"IsInitialized">> >>]

\* makeExecutor from "Resolve the API addr" on
connect(requested, apiAddr, w, calls) ==
    LET res == resolveAddr(w, apiAddr)
        calls1 == Append(calls, <<"resolveAddr", apiAddr>>)
    IN  IF res.err # "nil" THEN ExeError(res.err, calls1)
        ELSE
        LET dial == DialArgs(res.addr)
            calls2 == Append(calls1, <<"DialArgs", res.addr>>)
        IN  IF dial.err # "nil" THEN ExeError(dial.err, calls2)
            ELSE
            LET fb == useFallback(requested, w)
                calls3 == calls2 \o fb.calls
            IN  CASE dial.network \in {"tcp", "tcp4", "tcp6"} ->
                        ExeClient(fb.yes, res.addr, dial.network, dial.host, "", calls3)
                  [] dial.network = "unix" ->
                        ExeClient(fb.yes, res.addr, dial.network, "unix", dial.host, calls3)
                  [] OTHER ->
                        ExeError("unsupported API address", calls3)

\* makeExecutor from "Finally, look in the repo for an API file" on
discoverAndConnect(details, requested, optAddr, r, w) ==
    LET found == IF optAddr = "nil" THEN w.apiFile ELSE [addr |-> optAddr, err |-> "nil"]
        calls == IF optAddr = "nil" THEN << <<"APIAddr">> >> ELSE <<>>
    IN  IF discoveryAborts(found.err) THEN ExeError(found.err, calls)
        ELSE IF found.addr = "nil"
        THEN IF details.cannotRunOnClient
             THEN ExeError("command must be run on the daemon", calls)
             ELSE ExeLocal(calls)
        ELSE connect(requested, found.addr, w, calls)

makeExecutor(map, r, w) ==
    LET details == commandDetails(map, r.Path)
    IN  IF isDisabled(details) THEN ExeError("command disabled", <<>>)
        ELSE IF canRunLocally(details) THEN ExeLocal(<<>>)
        ELSE
        LET opt == apiAddrOption(r)
        IN  IF opt.err # "nil" THEN ExeError(opt.err, <<>>)
            ELSE
            LET requested == daemonRequested(opt.addr, r)
            IN  IF mustRunOnClient(details, r)
                THEN IF requested
                     THEN ExeError("api flag specified but command cannot be run on the daemon",
                                   <<>>)
                     ELSE ExeLocal(<<>>)
                ELSE discoverAndConnect(details, requested, opt.addr, r, w)

----------------------------------------------------------------------------
(* SpecExec: makeExecutor applied to every request and collaborator answer *)

ExecPaths == {<<>>, <<SegA>>, <<SegB>>}

ExecRegistries ==
    {[k \in {} |-> ZeroDetails]} \cup [{Join(<<SegA>>, <<"/">>)} -> AllDetails]

Requests ==
    [Path : ExecPaths, api : ApiOptionValues, isDaemonCmd : BOOLEAN, External : BOOLEAN]

Worlds ==
    [apiFile : DiscoveryResults, resolve : ResolveResults, initialized : BOOLEAN]

ExecInit ==
    /\ cmdDetailsMap \in ExecRegistries
    /\ req \in Requests
    /\ world \in Worlds
    /\ exeOut = None
    /\ IdleDetails /\ IdleCmd

CallMakeExecutor ==
    /\ exeOut = None
    /\ exeOut' = makeExecutor(cmdDetailsMap, req, world)
    /\ UNCHANGED <<cmdDetailsMap, req, world, detailsVars, cmdVars>>

ExecNext == CallMakeExecutor

SpecExec == ExecInit /\ [][ExecNext]_vars

Returned == exeOut # None
flags == commandDetails(cmdDetailsMap, req.Path)
Called(name) == \E i \in 1..Len(exeOut.calls) : exeOut.calls[i][1] = name
ExplicitGiven == req.api # NoOption

\* C1: a command whose flags have cannotRunOnClient never gets an outcome that
\* permits in-process execution (LocalExecutor or RemoteExecutorWithLocalFallback).
C1_NeverInProcess ==
    (Returned /\ flags.cannotRunOnClient) =>
        exeOut.kind \notin {"LocalExecutor", "RemoteExecutorWithLocalFallback"}

\* C2: once an address exists and resolution and transport construction
\* succeeded, the outcome is RemoteExecutorWithLocalFallback exactly when no
\* daemon was requested and the repository is initialized, a plain
\* RemoteExecutor otherwise; an explicit address on a command other than
\* daemon-start never yields a fallback.
C2_FallbackExactly ==
    Returned =>
        /\ (Called("DialArgs") /\ exeOut.err = "nil") =>
              exeOut.kind =
                 IF ~(ExplicitGiven /\ ~req.isDaemonCmd) /\ world.initialized
                 THEN "RemoteExecutorWithLocalFallback"
                 ELSE "RemoteExecutor"
        /\ (ExplicitGiven /\ ~req.isDaemonCmd) =>
              exeOut.kind # "RemoteExecutorWithLocalFallback"

\* a discovered address, an initialized repository: a client with fallback;
C2_Witness ==
    /\ Returned /\ ~ExplicitGiven /\ world.initialized
    /\ Called("DialArgs")
    /\ exeOut.kind = "RemoteExecutorWithLocalFallback"

\* the same request with no --api option
WithoutApi(r) == [r EXCEPT !.api = NoOption]

\* C3 as stated: for the daemon-start command the outcome with an explicit
\* address is the outcome of the same request with no explicit address
\* (variant, target and collaborator calls).
C3_Original ==
    (Returned /\ req.isDaemonCmd /\ ExplicitGiven) =>
        exeOut = makeExecutor(cmdDetailsMap, WithoutApi(req), world)

\* C3 amended: for the daemon-start command a well-formed explicit address is
\* never refused as a daemon request; the outcome (variant, error, target,
\* transport) is that of the same request with no explicit address and a
\* discovery record holding that address, the calls differing only by the
\* discovery that the explicit address replaces; where the request without
\* address ends before discovery, the two outcomes are equal.
C3_ExplicitReplacesDiscovery ==
    (Returned /\ req.isDaemonCmd /\ req.api \in WellFormedApi) =>
        LET plain == makeExecutor(cmdDetailsMap, WithoutApi(req), world)
            alt == makeExecutor(cmdDetailsMap, WithoutApi(req),
                                [world EXCEPT !.apiFile = [addr |-> req.api, err |-> "nil"]])
        IN  /\ exeOut.err # "api flag specified but command cannot be run on the daemon"
            /\ ~Called("APIAddr")
            /\ [exeOut EXCEPT !.calls = <<>>] = [alt EXCEPT !.calls = <<>>]
            /\ alt.calls \in {exeOut.calls, << <<"APIAddr">> >> \o exeOut.calls}
            /\ plain.calls = <<>> => exeOut = plain

\* daemon-start with an explicit address that is resolved and dialled
C3_Witness ==
    /\ Returned /\ req.isDaemonCmd /\ req.api \in WellFormedApi
    /\ exeOut.kind = "RemoteExecutorWithLocalFallback"
    /\ exeOut.calls[1] = <<"resolveAddr", req.api>>

\* C4: with doesNotUseRepo and not cannotRunOnClient the outcome is
\* LocalExecutor and discovery, resolution and the repository check are never
\* invoked, whatever the --api option holds.
C4_FastPath ==
    (Returned /\ flags.doesNotUseRepo /\ ~flags.cannotRunOnClient) =>
        /\ exeOut.kind = "LocalExecutor"
        /\ ~Called("APIAddr") /\ ~Called("resolveAddr") /\ ~Called("IsInitialized")

\* the fast path taken with a malformed --api option
C4_Witness ==
    /\ Returned /\ flags.doesNotUseRepo /\ ~flags.cannotRunOnClient
    /\ req.api \in MalformedApi /\ Len(req.Path) > 0
    /\ exeOut.kind = "LocalExecutor"

OffFastPath == ~(flags.doesNotUseRepo /\ ~flags.cannotRunOnClient)

ApiFlagRefused ==
    /\ exeOut.kind = "error"
    /\ exeOut.err = "api flag specified but command cannot be run on the daemon"

\* C5 as stated: off the fast path, with cannotRunOnDaemon or external, the
\* outcome is the "api flag specified" error when an explicit address was
\* given and the command is not daemon-start, LocalExecutor otherwise, with no
\* discovery and no resolution.
C5_Original ==
    (Returned /\ OffFastPath /\ (flags.cannotRunOnDaemon \/ req.External)) =>
        /\ IF ExplicitGiven /\ ~req.isDaemonCmd
           THEN ApiFlagRefused
           ELSE exeOut.kind = "LocalExecutor"
        /\ ~Called("APIAddr") /\ ~Called("resolveAddr")

\* C5 amended: the same for a command that is not disabled (not both
\* cannotRunOnClient and cannotRunOnDaemon), except that a malformed explicit
\* address yields the address parse error, for daemon-start too.
C5_ClientOnly ==
    (/\ Returned /\ OffFastPath /\ (flags.cannotRunOnDaemon \/ req.External)
     /\ ~(flags.cannotRunOnClient /\ flags.cannotRunOnDaemon)) =>
        /\ CASE req.api \in MalformedApi ->
                    exeOut.kind = "error" /\ exeOut.err = "invalid multiaddr"
             [] req.api \in WellFormedApi /\ ~req.isDaemonCmd -> ApiFlagRefused
             [] OTHER -> exeOut.kind = "LocalExecutor"
        /\ ~Called("APIAddr") /\ ~Called("resolveAddr")

\* an external command refused because an address was given
C5_Witness ==
    /\ Returned /\ OffFastPath /\ req.External /\ ~flags.cannotRunOnDaemon
    /\ req.api \in WellFormedApi /\ ~req.isDaemonCmd
    /\ ApiFlagRefused

\* C6: a "daemon not running" answer of discovery is never returned as an
\* error: the outcome is "command must be run on the daemon" with
\* cannotRunOnClient and LocalExecutor otherwise, with no resolution; any other
\* discovery failure is returned as the error.
C6_NotRunningAbsorbed ==
    (Returned /\ ~ExplicitGiven /\ Called("APIAddr")) =>
        /\ exeOut.err # "ErrApiNotRunning"
        /\ world.apiFile.err = "ErrApiNotRunning" =>
              /\ IF flags.cannotRunOnClient
                 THEN exeOut.kind = "error"
                      /\ exeOut.err = "command must be run on the daemon"
                 ELSE exeOut.kind = "LocalExecutor"
              /\ ~Called("resolveAddr")
        /\ world.apiFile.err \notin {"nil", "ErrApiNotRunning"} =>
              /\ exeOut.kind = "error"
              /\ exeOut.err = world.apiFile.err
              /\ ~Called("resolveAddr")

\* no daemon is running and the command needs one
C6_Witness ==
    /\ Returned /\ ~ExplicitGiven /\ Called("APIAddr")
    /\ world.apiFile.err = "ErrApiNotRunning"
    /\ flags.cannotRunOnClient
    /\ exeOut.err = "command must be run on the daemon"

\* C7: with both cannotRunOnClient and cannotRunOnDaemon the outcome is always
\* the "command disabled" error, and nothing is discovered or resolved.
C7_Disabled ==
    (Returned /\ flags.cannotRunOnClient /\ flags.cannotRunOnDaemon) =>
        /\ exeOut.kind = "error"
        /\ exeOut.err = "command disabled"
        /\ ~Called("APIAddr") /\ ~Called("resolveAddr")

\* a disabled command that does not use the repository, external, with an
\* explicit address
C7_Witness ==
    /\ Returned /\ flags.cannotRunOnClient /\ flags.cannotRunOnDaemon
    /\ flags.doesNotUseRepo /\ req.External /\ ExplicitGiven
    /\ exeOut.err = "command disabled"

----------------------------------------------------------------------------
(* command *)

ProgNames == {"ipfs", "/usr/local/bin/ipfs-lib"}
Words == {"--version", "help", "--help", "add"}

\* the argument lists command is called with: a program name, then words
ArgLists ==
    {<<n>> \o w : n \in ProgNames, w \in SeqsUpTo(Words, MaxArgs - 1)}

\* the help rewriting with "--help" appended unconditionally
rewriteHelpAlwaysAppend(a) ==
    IF Len(a) > 1 /\ a[2] = "help"
    THEN IF Len(a) > 2
         THEN Append(<<a[1]>> \o SubSeq(a, 3, Len(a)), "--help")
         ELSE [a EXCEPT ![2] = "--help"]
    ELSE a

\* if args[1] == "--version" { args[1] = "version" }
rewriteVersion(a) ==
    IF Len(a) > 1 /\ a[2] = "--version" THEN [a EXCEPT ![2] = "version"] ELSE a

\* if args[1] == "help" { ... }
rewriteHelp(a) ==
    IF Len(a) > 1 /\ a[2] = "help"
    THEN IF Len(a) > 2
         THEN LET cut == <<a[1]>> \o SubSeq(a, 3, Len(a))
              IN  IF cut[2] # "--help" THEN Append(cut, "--help") ELSE cut
         ELSE [a EXCEPT ![2] = "--help"]
    ELSE a

\* lines 87-111: the rewriting, then args[0] = "ipfs"
rewriteArgs(a) ==
    [rewriteHelp(rewriteVersion(a)) EXCEPT ![1] = "ipfs"]

ChanCaps == {0, 1}

CmdInit ==
    /\ argsIn \in ArgLists
    /\ args = argsIn
    /\ pc = "start"
    /\ chanCap \in ChanCaps
    /\ envCh = <<>> /\ errCh = <<>> /\ envSent = <<>> /\ errSent = <<>>
    /\ runErr = "nil"
    /\ kpc = "recvEnv" /\ kGot = <<>>
    /\ cmdDetailsMap = [k \in {} |-> ZeroDetails]
    /\ IdleDetails /\ IdleExec

others == <<cmdDetailsMap, detailsVars, execVars>>

\* envCh <- v: completes at once into a free buffer slot, or, unbuffered, when
\* the consumer is receiving from envCh
SendEnv(v, next) ==
    /\ IF chanCap = 0
       THEN /\ kpc = "recvEnv"
            /\ kpc' = "recvErr"
            /\ kGot' = Append(kGot, v)
            /\ envCh' = envCh
       ELSE /\ Len(envCh) < chanCap
            /\ envCh' = Append(envCh, v)
            /\ UNCHANGED <<kpc, kGot>>
    /\ envSent' = Append(envSent, v)
    /\ pc' = next
    /\ UNCHANGED <<argsIn, args, chanCap, errCh, errSent, runErr, others>>

\* errCh <- v
SendErr(v, next) ==
    /\ IF chanCap = 0
       THEN /\ kpc = "recvErr"
            /\ kpc' = "done"
            /\ kGot' = Append(kGot, v)
            /\ errCh' = errCh
       ELSE /\ Len(errCh) < chanCap
            /\ errCh' = Append(errCh, v)
            /\ UNCHANGED <<kpc, kGot>>
    /\ errSent' = Append(errSent, v)
    /\ pc' = next
    /\ UNCHANGED <<argsIn, args, chanCap, envCh, envSent, runErr, others>>

\* profileIfEnabled returns an error
ProfileFails ==
    /\ pc = "start"
    /\ runErr' = "profiling error"
    /\ pc' = "profSendEnv"
    /\ UNCHANGED <<argsIn, args, chanCap, envCh, errCh, envSent, errSent, kpc, kGot, others>>

\* line 81: envCh <- nil
ProfileSendsNil ==
    /\ pc = "profSendEnv"
    /\ SendEnv("nil", "sendErr")

\* profiling is set up (or off); the arguments are rewritten and cli.Run is called
RewriteAndRun ==
    /\ pc = "start"
    /\ args' = rewriteArgs(args)
    /\ pc' = "cliRun"
    /\ UNCHANGED <<argsIn, chanCap, envCh, errCh, envSent, errSent, runErr, kpc, kGot, others>>

\* cli.Run returns before it calls buildEnv: a parse error, or help printed (nil)
RunReturnsEarly ==
    /\ pc = "cliRun"
    /\ runErr' \in {"parse error", "nil"}
    /\ pc' = "sendErr"
    /\ UNCHANGED <<argsIn, args, chanCap, envCh, errCh, envSent, errSent, kpc, kGot, others>>

\* cli.Run calls buildEnv, and getRepoPath or loadPlugins fails
BuildEnvFails ==
    /\ pc = "cliRun"
    /\ runErr' \in {"repo path error", "error loading plugins"}
    /\ pc' = "buildSendNil"
    /\ UNCHANGED <<argsIn, args, chanCap, envCh, errCh, envSent, errSent, kpc, kGot, others>>

\* lines 117, 124: envCh <- nil; buildEnv returns the error and cli.Run returns it
BuildEnvSendsNil ==
    /\ pc = "buildSendNil"
    /\ SendEnv("nil", "sendErr")

\* cli.Run calls buildEnv, which builds env
BuildEnvSucceeds ==
    /\ pc = "cliRun"
    /\ pc' = "buildSendEnv"
    /\ UNCHANGED <<argsIn, args, chanCap, envCh, errCh, envSent, errSent, runErr, kpc, kGot, others>>

\* line 158: envCh <- env
BuildEnvSendsEnv ==
    /\ pc = "buildSendEnv"
    /\ SendEnv("env", "running")

\* cli.Run makes the executor, runs the command and returns
RunReturns ==
    /\ pc = "running"
    /\ runErr' \in {"nil", "command failed"}
    /\ pc' = "sendErr"
    /\ UNCHANGED <<argsIn, args, chanCap, envCh, errCh, envSent, errSent, kpc, kGot, others>>

\* lines 82, 164, 169: errCh <- err, or errCh <- ErrNormalExit
CommandSendsErr ==
    /\ pc = "sendErr"
    /\ SendErr(IF runErr # "nil" THEN runErr ELSE "ErrNormalExit", "done")

\* the consumer: <-envCh, then <-errCh (buffered channels)
ConsumerRecvEnv ==
    /\ kpc = "recvEnv"
    /\ envCh # <<>>
    /\ kGot' = Append(kGot, Head(envCh))
    /\ envCh' = Tail(envCh)
    /\ kpc' = "recvErr"
    /\ UNCHANGED <<argsIn, args, pc, chanCap, errCh, envSent, errSent, runErr, others>>

ConsumerRecvErr ==
    /\ kpc = "recvErr"
    /\ errCh # <<>>
    /\ kGot' = Append(kGot, Head(errCh))
    /\ errCh' = Tail(errCh)
    /\ kpc' = "done"
    /\ UNCHANGED <<argsIn, args, pc, chanCap, envCh, envSent, errSent, runErr, others>>

Next ==
    \/ ProfileFails
    \/ ProfileSendsNil
    \/ RewriteAndRun
    \/ RunReturnsEarly
    \/ BuildEnvFails
    \/ BuildEnvSendsNil
    \/ BuildEnvSucceeds
    \/ BuildEnvSendsEnv
    \/ RunReturns
    \/ CommandSendsErr
    \/ ConsumerRecvEnv
    \/ ConsumerRecvErr

Spec == CmdInit /\ [][Next]_vars

\* command has passed line 111
Rewritten == pc \notin {"idle", "start", "profSendEnv"} /\ runErr # "profiling error"

RestIn == SubSeq(argsIn, 3, Len(argsIn))

\* C8 as stated: "--version" first becomes "version"; "help cmd..." becomes
\* "cmd... --help"; "help" alone becomes "--help"; "help --help" is left as
\* [ipfs, help, --help]; the first argument is always "ipfs".
C8_Original ==
    Rewritten =>
        /\ args[1] = "ipfs"
        /\ (Len(argsIn) > 1 /\ argsIn[2] = "--version") =>
              args = <<"ipfs", "version">> \o RestIn
        /\ (Len(argsIn) = 2 /\ argsIn[2] = "help") => args = <<"ipfs", "--help">>
        /\ (Len(argsIn) > 2 /\ argsIn[2] = "help") =>
              IF Tail(argsIn) = <<"help", "--help">>
              THEN args = <<"ipfs", "help", "--help">>
              ELSE args = <<"ipfs">> \o RestIn \o <<"--help">>

\* C8 amended: for a non-empty argument list, the same, except that when the
\* word after "help" is "--help" only "help" is removed and nothing is
\* appended: "help --help" becomes [ipfs, --help].
C8_Rewriting ==
    Rewritten =>
        /\ args[1] = "ipfs"
        /\ (Len(argsIn) > 1 /\ argsIn[2] = "--version") =>
              args = <<"ipfs", "version">> \o RestIn
        /\ (Len(argsIn) = 2 /\ argsIn[2] = "help") => args = <<"ipfs", "--help">>
        /\ (Len(argsIn) > 2 /\ argsIn[2] = "help") =>
              IF argsIn[3] = "--help"
              THEN args = <<"ipfs">> \o RestIn
              ELSE args = <<"ipfs">> \o RestIn \o <<"--help">>

\* "help --help" under another program name, rewritten
C8_Witness ==
    /\ Rewritten
    /\ argsIn = <<"/usr/local/bin/ipfs-lib", "help", "--help">>
    /\ args = <<"ipfs", "--help">>

\* C10: in every execution of command exactly one value is sent on envCh (nil
\* when no environment was built) and then exactly one on errCh, ErrNormalExit
\* exactly when cli.Run returned no error; the consumer that receives from
\* envCh and then from errCh is never left waiting on envCh by a command that
\* has gone on to errCh.
C10_OneEnvThenOneErr ==
    /\ Len(envSent) <= 1 /\ Len(errSent) <= 1
    /\ pc \in {"sendErr", "done"} => Len(envSent) = 1
    /\ pc = "done" => Len(errSent) = 1
    /\ errSent # <<>> => (errSent[1] = "ErrNormalExit" <=> runErr = "nil")
    /\ ~(kpc = "recvEnv" /\ envCh = <<>> /\ pc \in {"sendErr", "done"})

====
